---- MODULE Spec2Model ----
(***************************************************************************)
(* Model of the storage service's read path (services/storage: Store and   *)
(* MergeTagKeys) and of the predicate compiler of the "store tagkeys"      *)
(* command (cmd/store/tagkeys: exprToNodeVisitor).                         *)
(*                                                                         *)
(* Go strings are sequences of byte values; a Go error is a sequence of    *)
(* text pieces (the empty sequence is the nil error).                      *)
(***************************************************************************)
EXTENDS Integers, Sequences, FiniteSets, TLC

VARIABLES
    pc,        \* position of the modelled call
    keys,      \* MergeTagKeys: the argument, a sequence of tsdb.TagKeys
    merged,    \* MergeTagKeys: the outcome
    call,      \* Store: the method called and its arguments
    env,       \* Store: what the collaborators answer during the call
    ret,       \* Store: what the method returned
    trace,     \* Store: the collaborator calls the method made, in order
    expr,      \* compiler: the expression walked
    v0,        \* compiler: the exprToNodeVisitor before the walk
    v,         \* compiler: the exprToNodeVisitor
    cmd,       \* query: the Command (its silent flag)
    stream,    \* query: what c.ReadTagKeys answers and the stream sends
    recvd,     \* query: the number of batches received from the stream
    count,     \* query: the local count
    wr,        \* query: the keys written to wr, and whether it was flushed
    out,       \* query: what was printed to cmd.Stdout
    qerr       \* query: the error returned

vars == <<pc, keys, merged, call, env, ret, trace, expr, v0, v,
          cmd, stream, recvd, count, wr, out, qerr>>

mergeVars == <<keys, merged>>
storeVars == <<call, env, ret, trace>>
visitVars == <<expr, v0, v>>
queryVars == <<cmd, stream, recvd, count, wr, out, qerr>>

NoValue == [none |-> TRUE]

\* No query is running (qerr is the nil error).
NoQuery ==
    /\ cmd = NoValue /\ stream = NoValue /\ recvd = 0 /\ count = 0
    /\ wr = NoValue /\ out = <<>> /\ qerr = <<>>

(***************************************************************************)
(* Strings                                                                 *)
(***************************************************************************)

\* Go's < on strings: bytewise lexicographic, a proper prefix is smaller.
RECURSIVE StringLess(_, _)
StringLess(a, b) ==
    IF b = <<>> THEN FALSE
    ELSE IF a = <<>> THEN TRUE
    ELSE IF Head(a) /= Head(b) THEN Head(a) < Head(b)
    ELSE StringLess(Tail(a), Tail(b))

\* One insertion step of a sort of strings: x goes after every element of
\* the sorted s that is not greater than it.
RECURSIVE InsertString(_, _)
InsertString(s, x) ==
    IF s = <<>> THEN <<x>>
    ELSE IF StringLess(x, Head(s)) THEN <<x>> \o s
    ELSE <<Head(s)>> \o InsertString(Tail(s), x)

\* sort.Strings left out: s as it is.
SortStringsSkipped(s) == s

\* sort.Strings(s): s in ascending order (equal strings are indistinguishable,
\* so the result does not depend on the sorting algorithm).
RECURSIVE SortStrings(_)
SortStrings(s) ==
    IF s = <<>> THEN <<>>
    ELSE InsertString(SortStrings(SubSeq(s, 1, Len(s) - 1)), s[Len(s)])

(***************************************************************************)
(* MergeTagKeys                                                            *)
(***************************************************************************)

\* The tag keys the index holds: "a", "ab", "b".
KeyUniverse == { <<97>>, <<97, 98>>, <<98>> }

MaxMeasurements == 3

\* for i := range keys { s = append(s, keys[i].Keys...) }
RECURSIVE AppendAllKeys(_, _)
AppendAllKeys(ks, i) ==
    IF i > Len(ks) THEN <<>>
    ELSE ks[i].Keys \o AppendAllKeys(ks, i + 1)

\* The dedupe loop, from (i, j) on; i and j are the code's 0-based indices,
\* so the code's s[i-1], s[j], s[i] are s[i], s[j+1], s[i+1] here.
RECURSIVE DedupeLoop(_, _, _)
DedupeLoop(s, i, j) ==
    IF j >= Len(s) THEN [s |-> s, i |-> i]
    ELSE IF s[i] /= s[j + 1]
         THEN DedupeLoop([s EXCEPT ![i + 1] = s[j + 1]], i + 1, j + 1)
         ELSE DedupeLoop(s, i, j + 1)

\* s[:i]. s is built by append from a nil slice, so it has capacity 0 when it
\* is empty; i never exceeds the length of a non-empty s. Slicing beyond the
\* capacity is a run-time panic.
SliceTo(s, i) ==
    IF i > Len(s) THEN [panic |-> TRUE, ret |-> <<>>]
    ELSE [panic |-> FALSE, ret |-> SubSeq(s, 1, i)]

MergeTagKeys(ks) ==
    IF Len(ks) = 1 THEN [panic |-> FALSE, ret |-> ks[1].Keys]
    ELSE IF Len(ks) = 0 THEN [panic |-> FALSE, ret |-> <<>>]
    ELSE LET s == SortStrings(AppendAllKeys(ks, 1))
             d == DedupeLoop(s, 1, 1)
         IN  SliceTo(d.s, d.i)

\* Strictly ascending sequences of strings: what the tag index supplies as
\* the Keys of one measurement.
IsSortedStrict(s) == \A k \in 1..(Len(s) - 1) : StringLess(s[k], s[k + 1])

SortedKeyLists ==
    { s \in UNION { [1..n -> KeyUniverse] : n \in 0..Cardinality(KeyUniverse) } :
        IsSortedStrict(s) }

\* The i-th measurement is named "m" followed by the i-th letter.
MeasurementName(i) == <<109, 96 + i>>

TagKeysInputs ==
    UNION { { [i \in 1..n |-> [Measurement |-> MeasurementName(i), Keys |-> f[i]]] :
                f \in [1..n -> SortedKeyLists] } : n \in 0..MaxMeasurements }

InitMerge ==
    /\ pc = "merge"
    /\ keys \in TagKeysInputs
    /\ merged = NoValue
    /\ call = NoValue /\ env = NoValue /\ ret = NoValue /\ trace = <<>>
    /\ expr = NoValue /\ v0 = NoValue /\ v = NoValue
    /\ NoQuery

CallMergeTagKeys ==
    /\ pc = "merge"
    /\ merged' = MergeTagKeys(keys)
    /\ pc' = "merged"
    /\ UNCHANGED <<keys, storeVars, visitVars, queryVars>>

NextMerge == CallMergeTagKeys

SpecMerge == InitMerge /\ [][NextMerge]_vars

\* The set of keys that occur in at least one input key list.
KeysUnion(ks) == UNION { { ks[i].Keys[k] : k \in 1..Len(ks[i].Keys) } : i \in 1..Len(ks) }

SeqRange(s) == { s[k] : k \in 1..Len(s) }

\* C1: for every sequence of TagKeys with sorted, duplicate-free (possibly
\* empty) key lists, MergeTagKeys returns normally with a strictly ascending
\* result holding exactly the keys of the inputs.
C1_MergeSortedUnion ==
    pc = "merged" =>
        /\ ~merged.panic
        /\ IsSortedStrict(merged.ret)
        /\ SeqRange(merged.ret) = KeysUnion(keys)

\* The input sequence ks taken in the order p, a permutation of its indices.
Permuted(ks, p) == [i \in 1..Len(ks) |-> ks[p[i]]]

\* C11: MergeTagKeys does the same on every permutation of its input: the
\* same result, element for element (and the same panic where it panics).
C11_MergeOrderInsensitive ==
    pc = "merged" =>
        \A p \in Permutations(1..Len(keys)) :
            MergeTagKeys(Permuted(keys, p)) = merged

C11_Witness ==
    /\ pc = "merged"
    /\ Len(keys) = 3
    /\ keys[1].Keys = << <<98>> >>
    /\ keys[2].Keys = << <<97>>, <<98>> >>
    /\ keys[3].Keys = << <<97, 98>> >>
    /\ merged = [panic |-> FALSE, ret |-> << <<97>>, <<97, 98>>, <<98>> >>]

(***************************************************************************)
(* MergeTagKeys on slices                                                  *)
(*                                                                         *)
(* The memory is a sequence of string arrays; a slice is [arr, len], the   *)
(* first len elements of the array arr, its capacity the array's length;   *)
(* the nil slice has arr = 0.                                              *)
(***************************************************************************)

NilSlice == [arr |-> 0, len |-> 0]

Elements(mem, s) == IF s.arr = 0 THEN <<>> ELSE SubSeq(mem[s.arr], 1, s.len)

Cap(mem, s) == IF s.arr = 0 THEN 0 ELSE Len(mem[s.arr])

\* The array a with xs written from its (0-based) position at on.
WriteAt(a, at, xs) ==
    [k \in 1..Len(a) |-> IF k > at /\ k <= at + Len(xs) THEN xs[k - at] ELSE a[k]]

\* append(s, x...) that hands out x itself when s is nil.
AppendSliceSharing(mem, s, x) ==
    LET xs == Elements(mem, x)
    IN  IF Len(xs) = 0 THEN [mem |-> mem, s |-> s]
        ELSE IF s.arr = 0 THEN [mem |-> mem, s |-> x]
        ELSE IF s.len + Len(xs) <= Cap(mem, s)
        THEN [mem |-> [mem EXCEPT ![s.arr] = WriteAt(@, s.len, xs)],
              s |-> [s EXCEPT !.len = s.len + Len(xs)]]
        ELSE [mem |-> Append(mem, Elements(mem, s) \o xs),
              s |-> [arr |-> Len(mem) + 1, len |-> s.len + Len(xs)]]

\* append(s, x...): s as it is when x has no element; the elements written
\* behind s's in its array when they fit; else a new array holding both (its
\* capacity is at least that; no other slice refers to it).
AppendSlice(mem, s, x) ==
    LET xs == Elements(mem, x)
    IN  IF Len(xs) = 0 THEN [mem |-> mem, s |-> s]
        ELSE IF s.len + Len(xs) <= Cap(mem, s)
        THEN [mem |-> [mem EXCEPT ![s.arr] = WriteAt(@, s.len, xs)],
              s |-> [s EXCEPT !.len = s.len + Len(xs)]]
        ELSE [mem |-> Append(mem, Elements(mem, s) \o xs),
              s |-> [arr |-> Len(mem) + 1, len |-> s.len + Len(xs)]]

\* for i := range keys { s = append(s, keys[i].Keys...) }, from i on.
RECURSIVE AppendAllKeysAt(_, _, _)
AppendAllKeysAt(st, in, i) ==
    IF i > Len(in) THEN st
    ELSE AppendAllKeysAt(AppendSlice(st.mem, st.s, in[i].Keys), in, i + 1)

\* The memory after xs is stored as the elements of s.
StoreElements(mem, s, xs) ==
    IF s.arr = 0 THEN mem ELSE [mem EXCEPT ![s.arr] = WriteAt(@, 0, xs)]

\* MergeTagKeys without its return of the only input's list.
MergeTagKeysAtNoShortcut(mem, in) ==
    IF Len(in) = 0
    THEN [panic |-> FALSE, ret |-> <<>>, slice |-> NilSlice, mem |-> mem]
    ELSE LET st == AppendAllKeysAt([mem |-> mem, s |-> NilSlice], in, 1)
             sorted == StoreElements(st.mem, st.s, SortStrings(Elements(st.mem, st.s)))
             d == DedupeLoop(Elements(sorted, st.s), 1, 1)
             deduped == StoreElements(sorted, st.s, d.s)
         IN  IF d.i > Cap(deduped, st.s)
             THEN [panic |-> TRUE, ret |-> <<>>, slice |-> NilSlice, mem |-> deduped]
             ELSE [panic |-> FALSE,
                   ret |-> Elements(deduped, [st.s EXCEPT !.len = d.i]),
                   slice |-> [st.s EXCEPT !.len = d.i],
                   mem |-> deduped]

\* MergeTagKeys on the input slices in, in the memory mem: the slice it
\* returns (and its elements), and the memory it leaves. sort.Strings and the
\* dedupe loop write into the array of s.
MergeTagKeysAt(mem, in) ==
    IF Len(in) = 1
    THEN [panic |-> FALSE, ret |-> Elements(mem, in[1].Keys),
          slice |-> in[1].Keys, mem |-> mem]
    ELSE IF Len(in) = 0
    THEN [panic |-> FALSE, ret |-> <<>>, slice |-> NilSlice, mem |-> mem]
    ELSE LET st == AppendAllKeysAt([mem |-> mem, s |-> NilSlice], in, 1)
             sorted == StoreElements(st.mem, st.s, SortStrings(Elements(st.mem, st.s)))
             d == DedupeLoop(Elements(sorted, st.s), 1, 1)
             deduped == StoreElements(sorted, st.s, d.s)
         IN  IF d.i > Cap(deduped, st.s)
             THEN [panic |-> TRUE, ret |-> <<>>, slice |-> NilSlice, mem |-> deduped]
             ELSE [panic |-> FALSE,
                   ret |-> Elements(deduped, [st.s EXCEPT !.len = d.i]),
                   slice |-> [st.s EXCEPT !.len = d.i],
                   mem |-> deduped]

MaxRawMeasurements == 2
MaxRawKeys == 3

RawKeys == { <<97>>, <<98>> }

\* Key lists as a caller may pass them: in any order, with duplicates.
RawKeyLists == UNION { [1..n -> RawKeys] : n \in 0..MaxRawKeys }

\* The inputs of n measurements.
RawTagKeysInputs(n) ==
    { [i \in 1..n |-> [Measurement |-> MeasurementName(i), Keys |-> f[i]]] :
        f \in [1..n -> RawKeyLists] }

\* The memory holding the key lists of ks, the i-th in the array i, and the
\* TagKeys whose Keys are the slices of these arrays.
InputMem(ks) == [i \in 1..Len(ks) |-> ks[i].Keys]

InputSlices(ks) ==
    [i \in 1..Len(ks) |->
        [Measurement |-> ks[i].Measurement,
         Keys |-> [arr |-> i, len |-> Len(ks[i].Keys)]]]

InitMergeRaw ==
    /\ pc = "merge"
    /\ \E n \in 0..MaxRawMeasurements : keys \in RawTagKeysInputs(n)
    /\ merged = NoValue
    /\ call = NoValue /\ env = NoValue /\ ret = NoValue /\ trace = <<>>
    /\ expr = NoValue /\ v0 = NoValue /\ v = NoValue
    /\ NoQuery

CallMergeTagKeysAt ==
    /\ pc = "merge"
    /\ merged' = MergeTagKeysAt(InputMem(keys), InputSlices(keys))
    /\ pc' = "merged"
    /\ UNCHANGED <<keys, storeVars, visitVars, queryVars>>

NextMergeRaw == CallMergeTagKeysAt

SpecMergeRaw == InitMergeRaw /\ [][NextMergeRaw]_vars

\* C12: on exactly one TagKeys MergeTagKeys returns that measurement's key
\* list itself: the same elements in the same order, neither sorted nor
\* deduplicated.
C12_SingleInputUnchanged ==
    pc = "merged" /\ Len(keys) = 1 =>
        /\ ~merged.panic
        /\ merged.ret = keys[1].Keys
        /\ merged.slice = InputSlices(keys)[1].Keys

C12_Witness ==
    /\ pc = "merged"
    /\ Len(keys) = 1
    /\ keys[1].Keys = << <<98>>, <<97>> >>
    /\ merged.ret = << <<98>>, <<97>> >>

\* C17: after a call of MergeTagKeys every input TagKeys holds the keys it
\* held before, in the same order, on the one-input path (which returns the
\* input list itself) as on the sort-and-compact path.
C17_InputsNotModified ==
    pc = "merged" =>
        \A i \in 1..Len(keys) :
            Elements(merged.mem, InputSlices(keys)[i].Keys) = keys[i].Keys

C17_Witness ==
    /\ pc = "merged"
    /\ Len(keys) = 2
    /\ keys[1].Keys = << <<98>>, <<97>> >>
    /\ keys[2].Keys = << <<97>> >>
    /\ merged.ret = << <<97>>, <<98>> >>
    /\ merged.slice.arr > Len(keys)

(***************************************************************************)
(* Store: collaborators                                                    *)
(***************************************************************************)

Nil == [nil |-> TRUE]

NoError == <<>>

\* models.MinNanoTime and models.MaxNanoTime are the smallest and largest
\* timestamps the engine stores: the minimum int64 plus 2 and the maximum
\* int64 minus 1. Timestamps are never added or multiplied here, only compared
\* and copied, so the model keeps them in the 32 bits TLC's integers have.
MinNanoTime == -2147483646
MaxNanoTime == 2147483646

\* The databases the metadata service knows. "d" has the retention policy "d",
\* its default; "dd" names a default policy, "dd", that it does not have.
MetaDatabases ==
    { [Name |-> <<100>>, DefaultRetentionPolicy |-> <<100>>,
       RetentionPolicies |-> { <<100>> }],
      [Name |-> <<100, 100>>, DefaultRetentionPolicy |-> <<100, 100>>,
       RetentionPolicies |-> { <<100>> }] }

\* MetaClient.Database(name): the database's info, or nil.
MetaDatabase(name) ==
    IF \E di \in MetaDatabases : di.Name = name
    THEN CHOOSE di \in MetaDatabases : di.Name = name
    ELSE Nil

\* di.RetentionPolicy(name): the policy of that name, or nil.
RetentionPolicy(di, name) ==
    IF name \in di.RetentionPolicies THEN [Name |-> name] ELSE Nil

\* time.Time.Before on the start times of two shard groups.
Before(t, u) == t < u

\* meta.ShardGroupInfos.Less, and the same under sort.Reverse, which swaps
\* the two arguments.
GroupLess(desc, g, h) ==
    IF desc THEN Before(h.StartTime, g.StartTime)
    ELSE Before(g.StartTime, h.StartTime)

Swap(s, i, j) == [s EXCEPT ![i] = s[j], ![j] = s[i]]

\* The inner loop of the library's insertionSort:
\*   for j := i; j > a && data.Less(j, j-1); j-- { data.Swap(j, j-1) }
\* with a = 0; j is 1-based here.
RECURSIVE SiftLeft(_, _, _)
SiftLeft(desc, s, j) ==
    IF j > 1 /\ GroupLess(desc, s[j], s[j - 1])
    THEN SiftLeft(desc, Swap(s, j, j - 1), j - 1)
    ELSE s

\* insertionSort(data, 0, n), from the 1-based position i on.
RECURSIVE InsertionSort(_, _, _)
InsertionSort(desc, s, i) ==
    IF i > Len(s) THEN s
    ELSE InsertionSort(desc, SiftLeft(desc, s, i), i + 1)

\* The pass the library's quickSort makes before insertionSort on a range of
\* at most 12 elements (Go 1.6 to 1.18):
\*   for i := a + 6; i < b; i++ { if data.Less(i, i-6) { data.Swap(i, i-6) } }
RECURSIVE ShellPass(_, _, _)
ShellPass(desc, s, i) ==
    IF i > Len(s) THEN s
    ELSE ShellPass(desc,
                   IF GroupLess(desc, s[i], s[i - 6]) THEN Swap(s, i, i - 6) ELSE s,
                   i + 1)

\* Up to this many elements sort.Sort uses no partitioning step.
SortSmall == 12

\* sort.Sort(groups) or sort.Sort(sort.Reverse(groups)) on at most SortSmall
\* groups: what the builds of the library produce. Go 1.6 to 1.18 run the
\* gap-6 pass and then insertionSort; Go 1.19 and later run insertionSort
\* alone. sort.Sort promises no stability.
SortOutcomes(desc, groups) ==
    { InsertionSort(desc, ShellPass(desc, groups, 7), 2),
      InsertionSort(desc, groups, 2) }

\* for _, g := range groups { for _, si := range g.Shards { append si.ID } }
RECURSIVE FlattenShardIDs(_, _)
FlattenShardIDs(groups, i) ==
    IF i > Len(groups) THEN <<>>
    ELSE groups[i].Shards \o FlattenShardIDs(groups, i + 1)

(***************************************************************************)
(* Store.findShardIDs and Store.validateArgs                               *)
(***************************************************************************)

\* The call of ShardGroupsByTimeRange findShardIDs makes.
ShardGroupsCall(database, rp, start, end) ==
    [fn |-> "ShardGroupsByTimeRange", args |-> <<database, rp, start, end>>]

\* findShardIDs, given the collaborator's answer (groups, err) and the order
\* sort.Sort left the groups in.
FindShardIDs(answer, sorted) ==
    IF answer.err /= NoError THEN [shardIDs |-> <<>>, err |-> answer.err]
    ELSE IF Len(answer.groups) = 0 THEN [shardIDs |-> <<>>, err |-> NoError]
    ELSE [shardIDs |-> FlattenShardIDs(sorted, 1), err |-> NoError]

\* The orders findShardIDs may see after its sort.
SortedGroups(desc, answer) ==
    IF answer.err /= NoError \/ Len(answer.groups) = 0 THEN { <<>> }
    ELSE SortOutcomes(desc, answer.groups)

\* strings.IndexByte(s, c), 0-based, -1 when c does not occur.
RECURSIVE IndexByte(_, _)
IndexByte(s, c) ==
    IF s = <<>> THEN -1
    ELSE IF Head(s) = c THEN 0
    ELSE LET r == IndexByte(Tail(s), c) IN IF r = -1 THEN -1 ELSE r + 1

Slash == 47

\* database, rp = database[:p], database[p+1:] when there is a '/'.
SplitDatabase(database) ==
    LET p == IndexByte(database, Slash)
    IN  IF p > -1
        THEN [database |-> SubSeq(database, 1, p),
              rp |-> SubSeq(database, p + 2, Len(database))]
        ELSE [database |-> database, rp |-> <<>>]

ValidateFailure(text) ==
    [database |-> <<>>, rp |-> <<>>, start |-> 0, end |-> 0, err |-> <<text>>]

\* validateArgs without its check that the retention policy exists.
ValidateArgsNoPolicyCheck(database, start, end) ==
    LET sp == SplitDatabase(database)
        di == MetaDatabase(sp.database)
    IN  IF di = Nil THEN ValidateFailure("no database")
        ELSE [database |-> sp.database,
              rp |-> IF sp.rp = <<>> THEN di.DefaultRetentionPolicy ELSE sp.rp,
              start |-> IF start <= 0 THEN MinNanoTime ELSE start,
              end |-> IF end <= 0 THEN MaxNanoTime ELSE end,
              err |-> NoError]

\* validateArgs replacing only a negative start, not a start of 0.
ValidateArgsNegativeStart(database, start, end) ==
    LET sp == SplitDatabase(database)
        di == MetaDatabase(sp.database)
    IN  IF di = Nil THEN ValidateFailure("no database")
        ELSE LET rp == IF sp.rp = <<>> THEN di.DefaultRetentionPolicy ELSE sp.rp
                 rpi == RetentionPolicy(di, rp)
             IN  IF rpi = Nil THEN ValidateFailure("invalid retention policy")
                 ELSE [database |-> sp.database,
                       rp |-> rp,
                       start |-> IF start < 0 THEN MinNanoTime ELSE start,
                       end |-> IF end <= 0 THEN MaxNanoTime ELSE end,
                       err |-> NoError]

ValidateArgs(database, start, end) ==
    LET sp == SplitDatabase(database)
        di == MetaDatabase(sp.database)
    IN  IF di = Nil THEN ValidateFailure("no database")
        ELSE LET rp == IF sp.rp = <<>> THEN di.DefaultRetentionPolicy ELSE sp.rp
                 rpi == RetentionPolicy(di, rp)
             IN  IF rpi = Nil THEN ValidateFailure("invalid retention policy")
                 ELSE [database |-> sp.database,
                       rp |-> rp,
                       start |-> IF start <= 0 THEN MinNanoTime ELSE start,
                       end |-> IF end <= 0 THEN MaxNanoTime ELSE end,
                       err |-> NoError]

\* The call of MetaClient.Database validateArgs makes.
DatabaseCall(database) ==
    [fn |-> "Database", args |-> <<SplitDatabase(database).database>>]

(***************************************************************************)
(* Store.Read and Store.ReadTagKeys                                        *)
(***************************************************************************)

ContextCanceled == <<"context canceled">>

\* newIndexSeriesCursor(ctx, req, shards): an error, no cursor when no series
\* matches on any shard, or the base cursor. The scan is a blocking step that
\* honours the request context.
NewIndexSeriesCursor(ctxDone, scan, shardIDs) ==
    IF ctxDone THEN [cur |-> Nil, err |-> ContextCanceled]
    ELSE IF scan = "error" THEN [cur |-> Nil, err |-> <<"scan failed">>]
    ELSE IF scan = "noSeries" THEN [cur |-> Nil, err |-> NoError]
    ELSE [cur |-> [stage |-> "index", shards |-> shardIDs], err |-> NoError]

\* newGroupSeriesCursor(ctx, cur, keys)
NewGroupSeriesCursor(cur, grouping) ==
    [stage |-> "group", cur |-> cur, keys |-> grouping]

\* newLimitSeriesCursor(ctx, cur, n, o)
NewLimitSeriesCursor(cur, n, o) ==
    [stage |-> "limit", cur |-> cur, n |-> n, o |-> o]

StageCall(name) == [fn |-> name, args |-> <<>>]

\* The pipeline with the limit stage only for a positive limit.
ReadPipelineLimitOnly(req, ctxDone, e, va, shardIDs) ==
    LET ic == NewIndexSeriesCursor(ctxDone, e.scan, shardIDs)
        t0 == <<StageCall("newIndexSeriesCursor")>>
    IN  IF ic.err /= NoError
        THEN [ret |-> [rs |-> Nil, err |-> ic.err], trace |-> t0]
        ELSE IF ic.cur = Nil
        THEN [ret |-> [rs |-> Nil, err |-> NoError], trace |-> t0]
        ELSE LET grouped == Len(req.Grouping) > 0
                 limited == req.SeriesLimit > 0
                 cur1 == IF grouped
                         THEN NewGroupSeriesCursor(ic.cur, req.Grouping)
                         ELSE ic.cur
                 cur2 == IF limited
                         THEN NewLimitSeriesCursor(cur1, req.SeriesLimit, req.SeriesOffset)
                         ELSE cur1
                 rs == [req |-> [ctxDone |-> ctxDone,
                                 start |-> va.start,
                                 end |-> va.end,
                                 asc |-> ~req.Descending,
                                 limit |-> req.PointsLimit,
                                 aggregate |-> req.Aggregate],
                        cur |-> cur2]
             IN  [ret |-> [rs |-> rs, err |-> NoError],
                  trace |-> t0
                            \o (IF grouped THEN <<StageCall("newGroupSeriesCursor")>> ELSE <<>>)
                            \o (IF limited THEN <<StageCall("newLimitSeriesCursor")>> ELSE <<>>)]

\* The pipeline built without the check for "no cursor": the stages wrap nil.
ReadPipelineNoNilCheck(req, ctxDone, e, va, shardIDs) ==
    LET ic == NewIndexSeriesCursor(ctxDone, e.scan, shardIDs)
        t0 == <<StageCall("newIndexSeriesCursor")>>
    IN  IF ic.err /= NoError
        THEN [ret |-> [rs |-> Nil, err |-> ic.err], trace |-> t0]
        ELSE LET grouped == Len(req.Grouping) > 0
                 limited == req.SeriesLimit > 0 \/ req.SeriesOffset > 0
                 cur1 == IF grouped
                         THEN NewGroupSeriesCursor(ic.cur, req.Grouping)
                         ELSE ic.cur
                 cur2 == IF limited
                         THEN NewLimitSeriesCursor(cur1, req.SeriesLimit, req.SeriesOffset)
                         ELSE cur1
                 rs == [req |-> [ctxDone |-> ctxDone,
                                 start |-> va.start,
                                 end |-> va.end,
                                 asc |-> ~req.Descending,
                                 limit |-> req.PointsLimit,
                                 aggregate |-> req.Aggregate],
                        cur |-> cur2]
             IN  [ret |-> [rs |-> rs, err |-> NoError],
                  trace |-> t0
                            \o (IF grouped THEN <<StageCall("newGroupSeriesCursor")>> ELSE <<>>)
                            \o (IF limited THEN <<StageCall("newLimitSeriesCursor")>> ELSE <<>>)]

\* The part of Read after findShardIDs succeeded with shardIDs.
ReadPipeline(req, ctxDone, e, va, shardIDs) ==
    LET ic == NewIndexSeriesCursor(ctxDone, e.scan, shardIDs)
        t0 == <<StageCall("newIndexSeriesCursor")>>
    IN  IF ic.err /= NoError
        THEN [ret |-> [rs |-> Nil, err |-> ic.err], trace |-> t0]
        ELSE IF ic.cur = Nil
        THEN [ret |-> [rs |-> Nil, err |-> NoError], trace |-> t0]
        ELSE LET grouped == Len(req.Grouping) > 0
                 limited == req.SeriesLimit > 0 \/ req.SeriesOffset > 0
                 cur1 == IF grouped
                         THEN NewGroupSeriesCursor(ic.cur, req.Grouping)
                         ELSE ic.cur
                 cur2 == IF limited
                         THEN NewLimitSeriesCursor(cur1, req.SeriesLimit, req.SeriesOffset)
                         ELSE cur1
                 rs == [req |-> [ctxDone |-> ctxDone,
                                 start |-> va.start,
                                 end |-> va.end,
                                 asc |-> ~req.Descending,
                                 limit |-> req.PointsLimit,
                                 aggregate |-> req.Aggregate],
                        cur |-> cur2]
             IN  [ret |-> [rs |-> rs, err |-> NoError],
                  trace |-> t0
                            \o (IF grouped THEN <<StageCall("newGroupSeriesCursor")>> ELSE <<>>)
                            \o (IF limited THEN <<StageCall("newLimitSeriesCursor")>> ELSE <<>>)]

\* Store.Read: what it returns and the collaborator calls it makes, given the
\* collaborators' answers e and the order the sort left the groups in.
Read(req, ctxDone, e, sorted) ==
    LET va == ValidateArgs(req.Database, req.Start, req.End)
        t1 == <<DatabaseCall(req.Database)>>
    IN  IF va.err /= NoError
        THEN [ret |-> [rs |-> Nil, err |-> va.err], trace |-> t1]
        ELSE LET fs == FindShardIDs(e.groups, sorted)
                 t2 == t1 \o <<ShardGroupsCall(va.database, va.rp, va.start, va.end)>>
             IN  IF fs.err /= NoError
                 THEN [ret |-> [rs |-> Nil, err |-> fs.err], trace |-> t2]
                 ELSE LET p == ReadPipeline(req, ctxDone, e, va, fs.shardIDs)
                      IN  [ret |-> p.ret, trace |-> t2 \o p.trace]

\* Store.ReadTagKeys; the request context is not used.
ReadTagKeys(req, ctxDone, e, sorted) ==
    LET va == ValidateArgs(req.Database, req.Start, req.End)
        t1 == <<DatabaseCall(req.Database)>>
    IN  IF va.err /= NoError
        THEN [ret |-> [keys |-> <<>>, err |-> va.err, panic |-> FALSE], trace |-> t1]
        ELSE LET fs == FindShardIDs(e.groups, sorted)
                 t2 == t1 \o <<ShardGroupsCall(va.database, va.rp, va.start, va.end)>>
                 t3 == t2 \o <<[fn |-> "TagKeys", args |-> <<fs.shardIDs>>]>>
             IN  IF fs.err /= NoError
                 THEN [ret |-> [keys |-> <<>>, err |-> fs.err, panic |-> FALSE], trace |-> t2]
                 ELSE IF e.tagKeys.err /= NoError
                 THEN [ret |-> [keys |-> <<>>, err |-> e.tagKeys.err, panic |-> FALSE],
                       trace |-> t3]
                 ELSE LET m == MergeTagKeys(e.tagKeys.keys)
                      IN  [ret |-> [keys |-> m.ret, err |-> NoError, panic |-> m.panic],
                           trace |-> t3]

(***************************************************************************)
(* Store: inputs and actions                                               *)
(***************************************************************************)

MaxDatabaseLen == 3
MaxGroups == 7
MaxReadGroups == 2

\* The raw database arguments: strings of "d" and "/".
DatabaseInputs == UNION { [1..n -> {100, Slash}] : n \in 0..MaxDatabaseLen }

\* The bounds validateArgs is tried on, and those of the requests.
TimeInputs == { MinNanoTime, -1, 0, 1, 2, MaxNanoTime }
RequestTimes == { 0, 1, 2 }

StartTimes == { 1, 2, 3 }

\* The shards of the shard group with the given ID, in their stored order.
ShardsOf(id) == IF id % 2 = 1 THEN <<10 * id + 2, 10 * id + 1>> ELSE <<10 * id + 1>>

\* What ShardGroupsByTimeRange may answer with at most n groups: the i-th
\* group it returns has ID i.
GroupLists(n) ==
    UNION { { [i \in 1..k |-> [ID |-> i, StartTime |-> f[i], Shards |-> ShardsOf(i)]] :
                f \in [1..k -> StartTimes] } : k \in 0..n }

GroupAnswers(n) ==
    { [groups |-> <<>>, err |-> <<"meta failed">>] }
        \cup { [groups |-> g, err |-> NoError] : g \in GroupLists(n) }

\* What TSDBStore.TagKeys may answer.
TagKeysAnswers ==
    { [keys |-> <<>>, err |-> <<"tag keys failed">>] }
        \cup { [keys |-> ks, err |-> NoError] :
                 ks \in { k \in TagKeysInputs :
                            Len(k) <= 2 /\ \A i \in 1..Len(k) : Len(k[i].Keys) <= 1 } }

ReadRequests ==
    [Database : DatabaseInputs, Start : RequestTimes, End : RequestTimes,
     Descending : BOOLEAN, Grouping : { <<>>, << <<100>> >> },
     SeriesLimit : {0, 1}, SeriesOffset : {0, 1},
     PointsLimit : {0}, Aggregate : {Nil}]

ReadTagKeysRequests ==
    [Database : DatabaseInputs, Start : RequestTimes, End : RequestTimes]

InitStore ==
    /\ pc = "idle"
    /\ call = NoValue /\ env = NoValue /\ ret = NoValue /\ trace = <<>>
    /\ keys = <<>> /\ merged = NoValue
    /\ expr = NoValue /\ v0 = NoValue /\ v = NoValue
    /\ NoQuery

CallValidateArgs ==
    /\ pc = "idle"
    /\ \E database \in DatabaseInputs, start \in TimeInputs, end \in TimeInputs :
        /\ call' = [method |-> "validateArgs", database |-> database,
                    start |-> start, end |-> end]
        /\ ret' = ValidateArgs(database, start, end)
        /\ trace' = <<DatabaseCall(database)>>
    /\ env' = NoValue
    /\ pc' = "returned"
    /\ UNCHANGED <<mergeVars, visitVars, queryVars>>

CallFindShardIDs ==
    /\ pc = "idle"
    /\ MaxGroups <= SortSmall
    /\ \E desc \in BOOLEAN, answer \in GroupAnswers(MaxGroups) :
        \E sorted \in SortedGroups(desc, answer) :
            /\ call' = [method |-> "findShardIDs", database |-> <<100>>, rp |-> <<100>>,
                        desc |-> desc, start |-> 1, end |-> 2]
            /\ env' = [groups |-> answer]
            /\ ret' = FindShardIDs(answer, sorted)
            /\ trace' = <<ShardGroupsCall(<<100>>, <<100>>, 1, 2)>>
    /\ pc' = "returned"
    /\ UNCHANGED <<mergeVars, visitVars, queryVars>>

CallRead ==
    /\ pc = "idle"
    /\ \E req \in ReadRequests, ctxDone \in BOOLEAN,
          answer \in GroupAnswers(MaxReadGroups),
          scan \in {"error", "noSeries", "series"} :
        \E sorted \in SortedGroups(req.Descending, answer) :
            LET e == [groups |-> answer, scan |-> scan]
                r == Read(req, ctxDone, e, sorted)
            IN  /\ call' = [method |-> "Read", ctxDone |-> ctxDone, req |-> req]
                /\ env' = e
                /\ ret' = r.ret
                /\ trace' = r.trace
    /\ pc' = "returned"
    /\ UNCHANGED <<mergeVars, visitVars, queryVars>>

CallReadTagKeys ==
    /\ pc = "idle"
    /\ \E req \in ReadTagKeysRequests, ctxDone \in BOOLEAN,
          answer \in GroupAnswers(MaxReadGroups), tk \in TagKeysAnswers :
        \E sorted \in SortedGroups(FALSE, answer) :
            LET e == [groups |-> answer, tagKeys |-> tk]
                r == ReadTagKeys(req, ctxDone, e, sorted)
            IN  /\ call' = [method |-> "ReadTagKeys", ctxDone |-> ctxDone, req |-> req]
                /\ env' = e
                /\ ret' = r.ret
                /\ trace' = r.trace
    /\ pc' = "returned"
    /\ UNCHANGED <<mergeVars, visitVars, queryVars>>

NextStore ==
    \/ CallValidateArgs
    \/ CallFindShardIDs
    \/ CallRead
    \/ CallReadTagKeys

SpecStore == InitStore /\ [][NextStore]_vars

(***************************************************************************)
(* Store: properties                                                       *)
(***************************************************************************)

Returned(method) == pc = "returned" /\ call.method = method

HasCall(fn) == \E k \in 1..Len(trace) : trace[k].fn = fn

\* The part of a raw database argument before its first '/': the database.
DatabasePart(raw) ==
    LET k == CHOOSE n \in 0..Len(raw) :
                 /\ \A i \in 1..n : raw[i] /= Slash
                 /\ (n = Len(raw) \/ raw[n + 1] = Slash)
    IN  SubSeq(raw, 1, k)

\* The part after the first '/': the retention policy asked for, if any.
PolicyPart(raw) == SubSeq(raw, Len(DatabasePart(raw)) + 2, Len(raw))

KnownDatabase(raw) == \E di \in MetaDatabases : di.Name = DatabasePart(raw)

\* The database is known and the policy asked for, or the database's default
\* when none is asked for, is one of its policies.
KnownPolicy(raw) ==
    \E di \in MetaDatabases :
        /\ di.Name = DatabasePart(raw)
        /\ (IF PolicyPart(raw) = <<>> THEN di.DefaultRetentionPolicy ELSE PolicyPart(raw))
               \in di.RetentionPolicies

\* C2: after validateArgs succeeds the returned start never exceeds the
\* returned end, and no range whose end precedes its start reaches the
\* shard-group lookup.
C2_ResolvedRangeOrdered ==
    /\ Returned("validateArgs") /\ ret.err = NoError => ret.start <= ret.end
    /\ pc = "returned" =>
           \A k \in 1..Len(trace) :
               trace[k].fn = "ShardGroupsByTimeRange" =>
                   trace[k].args[3] <= trace[k].args[4]

\* C3: a call of Read or ReadTagKeys whose context is already cancelled fails:
\* it returns an error and neither a result set nor a key list. (That the
\* error is the cancellation error is the stronger part of the claim.)
C3_CancelledContextFails ==
    /\ Returned("Read") /\ call.ctxDone => ret.err /= NoError /\ ret.rs = Nil
    /\ Returned("ReadTagKeys") /\ call.ctxDone => ret.err /= NoError /\ ret.keys = <<>>

\* The place of the i-th group in the order by start time that keeps groups
\* of equal start time in the order the collaborator returned them.
StablePlace(desc, groups, i) ==
    1 + Cardinality({ j \in 1..Len(groups) :
                        \/ GroupLess(desc, groups[j], groups[i])
                        \/ groups[j].StartTime = groups[i].StartTime /\ j < i })

StableOrder(desc, groups) ==
    [p \in 1..Len(groups) |->
        groups[CHOOSE i \in 1..Len(groups) : StablePlace(desc, groups, i) = p]]

\* C4: findShardIDs returns the shard ids of the groups ordered by start time,
\* ascending or descending as asked, groups of equal start time in the order
\* the collaborator returned them, each group's shards in their stored order;
\* no group gives the empty sequence and no error.
C4_ShardIDsStableByStart ==
    Returned("findShardIDs") /\ env.groups.err = NoError =>
        /\ ret.err = NoError
        /\ ret.shardIDs = FlattenShardIDs(StableOrder(call.desc, env.groups.groups), 1)

\* C8: when the database is unknown, or the resolved retention policy is not
\* one of the database's, Read and ReadTagKeys fail with the not-found error
\* and call neither ShardGroupsByTimeRange nor the shard scan nor TagKeys.
C8_UnknownDatabaseNoLookup ==
    (Returned("Read") \/ Returned("ReadTagKeys")) /\ ~KnownPolicy(call.req.Database) =>
        /\ ret.err = IF KnownDatabase(call.req.Database)
                     THEN <<"invalid retention policy">>
                     ELSE <<"no database">>
        /\ ~HasCall("ShardGroupsByTimeRange")
        /\ ~HasCall("newIndexSeriesCursor")
        /\ ~HasCall("TagKeys")

C8_Witness ==
    /\ Returned("Read")
    /\ ~KnownDatabase(call.req.Database)
    /\ ~call.ctxDone
    /\ Len(env.groups.groups) > 0
    /\ ret.err = <<"no database">>

\* The base scan was made and reported no matching series: no cursor, no error.
ScanFoundNoSeries ==
    /\ HasCall("newIndexSeriesCursor")
    /\ ~call.ctxDone
    /\ env.scan = "noSeries"

\* C9: when the base scan reports that no series matches, Read returns a nil
\* result set and a nil error and builds neither a group nor a limit stage,
\* whatever the grouping, series limit and series offset; every failure of
\* Read returns a nil result set with a non-nil error.
C9_NoSeriesNilNil ==
    Returned("Read") =>
        /\ ScanFoundNoSeries =>
              /\ ret.rs = Nil /\ ret.err = NoError
              /\ ~HasCall("newGroupSeriesCursor")
              /\ ~HasCall("newLimitSeriesCursor")
        /\ ret.err /= NoError => ret.rs = Nil

C9_Witness ==
    /\ Returned("Read")
    /\ ScanFoundNoSeries
    /\ Len(call.req.Grouping) > 0
    /\ call.req.SeriesLimit > 0
    /\ ret.rs = Nil /\ ret.err = NoError

\* C10: validateArgs returns the engine minimum for a start <= 0, the engine
\* maximum for an end <= 0 and every positive start or end unchanged, each
\* bound on its own; Read and ReadTagKeys hand these bounds to the lookup.
C10_SentinelSubstitution ==
    /\ Returned("validateArgs") /\ ret.err = NoError =>
          /\ ret.start = (IF call.start <= 0 THEN MinNanoTime ELSE call.start)
          /\ ret.end = (IF call.end <= 0 THEN MaxNanoTime ELSE call.end)
    /\ Returned("Read") \/ Returned("ReadTagKeys") =>
          \A k \in 1..Len(trace) :
              trace[k].fn = "ShardGroupsByTimeRange" =>
                  /\ trace[k].args[3] =
                        (IF call.req.Start <= 0 THEN MinNanoTime ELSE call.req.Start)
                  /\ trace[k].args[4] =
                        (IF call.req.End <= 0 THEN MaxNanoTime ELSE call.req.End)

C10_Witness ==
    /\ Returned("validateArgs")
    /\ call.start = 0 /\ call.end = 2
    /\ ret.err = NoError
    /\ ret.start = MinNanoTime /\ ret.end = 2

(***************************************************************************)
(* exprToNodeVisitor: the predicate compiler                               *)
(*                                                                         *)
(* An expression is [type, op, val, kids]: type is the influxql node type, *)
(* op the operator token of a BinaryExpr, val the text of a literal's or   *)
(* reference's Val, kids the sub-expressions (LHS and RHS, or Expr).       *)
(* A storage.Node is [NodeType, Value, Children], Value being the oneof    *)
(* field set and what it holds.                                            *)
(***************************************************************************)

NoOp == "ILLEGAL"

BinaryExpr(op, lhs, rhs) ==
    [type |-> "BinaryExpr", op |-> op, val |-> "", kids |-> <<lhs, rhs>>]

ParenExpr(e) == [type |-> "ParenExpr", op |-> NoOp, val |-> "", kids |-> <<e>>]

LeafExpr(type, val) == [type |-> type, op |-> NoOp, val |-> val, kids |-> <<>>]

\* influxql.Token.String() for the operator tokens.
TokenString(op) ==
    CASE op = "ADD" -> "+"
      [] op = "SUB" -> "-"
      [] op = "MUL" -> "*"
      [] op = "DIV" -> "/"
      [] op = "AND" -> "AND"
      [] op = "OR" -> "OR"
      [] op = "EQ" -> "="
      [] op = "NEQ" -> "!="
      [] op = "EQREGEX" -> "=~"
      [] op = "NEQREGEX" -> "!~"
      [] op = "LT" -> "<"
      [] op = "LTE" -> "<="
      [] op = "GT" -> ">"
      [] op = "GTE" -> ">="
      [] OTHER -> "ILLEGAL"

\* mapOpToComparison's answer for an operator that is no comparison.
NoComparison == "-1"

\* mapOpToComparison with the equality comparison as its default.
MapOpToComparisonDefaultEqual(op) ==
    CASE op = "NEQ" -> "ComparisonNotEqual"
      [] op = "LT" -> "ComparisonLess"
      [] op = "LTE" -> "ComparisonLessEqual"
      [] op = "GT" -> "ComparisonGreater"
      [] op = "GTE" -> "ComparisonGreaterEqual"
      [] OTHER -> "ComparisonEqual"

MapOpToComparison(op) ==
    CASE op = "EQ" -> "ComparisonEqual"
      [] op = "NEQ" -> "ComparisonNotEqual"
      [] op = "LT" -> "ComparisonLess"
      [] op = "LTE" -> "ComparisonLessEqual"
      [] op = "GT" -> "ComparisonGreater"
      [] op = "GTE" -> "ComparisonGreaterEqual"
      [] OTHER -> NoComparison

Node(nodeType, oneof, val, children) ==
    [NodeType |-> nodeType, Value |-> [oneof |-> oneof, val |-> val],
     Children |-> children]

\* var v exprToNodeVisitor
NewVisitor == [nodes |-> <<>>, err |-> NoError, panic |-> FALSE]

Panicked(vis) == [vis EXCEPT !.panic = TRUE]

Push(vis, node) == [vis EXCEPT !.nodes = Append(vis.nodes, node)]

\* pop: the top node and the visitor without it, or the panic.
Pop(vis) ==
    IF Len(vis.nodes) < 1 THEN [vis |-> Panicked(vis), top |-> Nil]
    ELSE [vis |-> [vis EXCEPT !.nodes = SubSeq(vis.nodes, 1, Len(vis.nodes) - 1)],
          top |-> vis.nodes[Len(vis.nodes)]]

\* pop2 that removes only the top node from the stack.
Pop2RemovesOne(vis) ==
    IF Len(vis.nodes) < 2 THEN [vis |-> Panicked(vis), lhs |-> Nil, rhs |-> Nil]
    ELSE [vis |-> [vis EXCEPT !.nodes = SubSeq(vis.nodes, 1, Len(vis.nodes) - 1)],
          lhs |-> vis.nodes[Len(vis.nodes) - 1],
          rhs |-> vis.nodes[Len(vis.nodes)]]

\* pop2 that takes the top node for lhs and the one below it for rhs.
Pop2Swapped(vis) ==
    IF Len(vis.nodes) < 2 THEN [vis |-> Panicked(vis), lhs |-> Nil, rhs |-> Nil]
    ELSE [vis |-> [vis EXCEPT !.nodes = SubSeq(vis.nodes, 1, Len(vis.nodes) - 2)],
          lhs |-> vis.nodes[Len(vis.nodes)],
          rhs |-> vis.nodes[Len(vis.nodes) - 1]]

\* pop2: the two top nodes, lhs below rhs, and the visitor without them.
Pop2(vis) ==
    IF Len(vis.nodes) < 2 THEN [vis |-> Panicked(vis), lhs |-> Nil, rhs |-> Nil]
    ELSE [vis |-> [vis EXCEPT !.nodes = SubSeq(vis.nodes, 1, Len(vis.nodes) - 2)],
          lhs |-> vis.nodes[Len(vis.nodes) - 1],
          rhs |-> vis.nodes[Len(vis.nodes)]]

\* The end of Visit on a BinaryExpr, after both operands were walked.
ReduceBinary(vis, op) ==
    IF MapOpToComparison(op) /= NoComparison
    THEN LET p == Pop2(vis)
         IN  IF p.vis.panic THEN p.vis
             ELSE Push(p.vis, Node("NodeTypeComparisonExpression", "Comparison",
                                   MapOpToComparison(op), <<p.lhs, p.rhs>>))
    ELSE IF op = "AND" \/ op = "OR"
    THEN LET p == Pop2(vis)
         IN  IF p.vis.panic THEN p.vis
             ELSE Push(p.vis, Node("NodeTypeLogicalExpression", "Logical",
                                   IF op = "AND" THEN "LogicalAnd" ELSE "LogicalOr",
                                   <<p.lhs, p.rhs>>))
    ELSE [vis EXCEPT !.err = <<"unsupported operator, ", TokenString(op)>>]

\* The end of Visit on a ParenExpr, after the inner expression was walked.
ReduceParen(vis) ==
    LET p == Pop(vis)
    IN  IF p.vis.panic THEN p.vis
        ELSE Push(p.vis, Node("NodeTypeParenExpression", "nil", "", <<p.top>>))

\* Visit on the nodes without sub-expressions that Visit handles.
VisitLeaf(vis, n) ==
    CASE n.type = "StringLiteral" ->
            Push(vis, Node("NodeTypeLiteral", "StringValue", n.val, <<>>))
      [] n.type = "NumberLiteral" ->
            Push(vis, Node("NodeTypeLiteral", "FloatValue", n.val, <<>>))
      [] n.type = "IntegerLiteral" ->
            Push(vis, Node("NodeTypeLiteral", "IntegerValue", n.val, <<>>))
      [] n.type = "UnsignedLiteral" ->
            Push(vis, Node("NodeTypeLiteral", "UnsignedValue", n.val, <<>>))
      [] n.type = "VarRef" ->
            Push(vis, Node("NodeTypeTagRef", "TagRefValue", n.val, <<>>))
      [] OTHER -> [vis EXCEPT !.err = <<"unsupported expression">>]

\* exprToNodeVisitor.Visit. Every branch returns a nil Visitor, so
\* influxql.Walk(v, node), which calls v.Visit(node) and walks the node's
\* children only with a non-nil answer, does what Visit does. A panic ends
\* the walk at once.
RECURSIVE Visit(_, _)
Walk(vis, n) == IF vis.panic THEN vis ELSE Visit(vis, n)

\* Visit that goes on to pop2 after the right operand failed.
VisitNoRhsCheck(vis, n) ==
    IF n.type = "BinaryExpr"
    THEN IF vis.err /= NoError THEN vis
         ELSE LET v1 == Walk(vis, n.kids[1])
              IN  IF v1.panic \/ v1.err /= NoError THEN v1
                  ELSE LET v2 == Walk(v1, n.kids[2])
                       IN  IF v2.panic THEN v2
                           ELSE ReduceBinary(v2, n.op)
    ELSE IF n.type = "ParenExpr"
    THEN LET v1 == Walk(vis, n.kids[1])
         IN  IF v1.panic \/ v1.err /= NoError THEN v1
             ELSE ReduceParen(v1)
    ELSE VisitLeaf(vis, n)

Visit(vis, n) ==
    IF n.type = "BinaryExpr"
    THEN IF vis.err /= NoError THEN vis
         ELSE LET v1 == Walk(vis, n.kids[1])
              IN  IF v1.panic \/ v1.err /= NoError THEN v1
                  ELSE LET v2 == Walk(v1, n.kids[2])
                       IN  IF v2.panic \/ v2.err /= NoError THEN v2
                           ELSE ReduceBinary(v2, n.op)
    ELSE IF n.type = "ParenExpr"
    THEN LET v1 == Walk(vis, n.kids[1])
         IN  IF v1.panic \/ v1.err /= NoError THEN v1
             ELSE ReduceParen(v1)
    ELSE VisitLeaf(vis, n)

(***************************************************************************)
(* The compiler: inputs and actions                                        *)
(***************************************************************************)

MaxExprSize == 5
MaxFullSize == 3

\* The operators of a BinaryExpr: the comparisons, AND and OR, and operators
\* the compiler does not support.
AllOps == { "EQ", "NEQ", "LT", "LTE", "GT", "GTE", "AND", "OR", "ADD", "EQREGEX" }
CoreOps == { "EQ", "AND", "OR", "ADD" }

\* The nodes without sub-expressions: the literals, the reference, and
\* shapes the compiler does not support.
AllLeaves ==
    { LeafExpr("StringLiteral", "x"), LeafExpr("NumberLiteral", "1.5"),
      LeafExpr("IntegerLiteral", "1"), LeafExpr("UnsignedLiteral", "2"),
      LeafExpr("VarRef", "a"), LeafExpr("Call", "now"),
      LeafExpr("RegexLiteral", "x.*") }
CoreLeaves ==
    { LeafExpr("VarRef", "a"), LeafExpr("IntegerLiteral", "1"), LeafExpr("Call", "now") }

\* bySize[k] holds the expressions of k nodes; the expressions of one more
\* node are added until there are those of max nodes.
RECURSIVE ExprsBySize(_, _, _, _)
ExprsBySize(bySize, leaves, ops, max) ==
    IF Len(bySize) >= max THEN bySize
    ELSE LET n == Len(bySize) + 1
             new == IF n = 1 THEN leaves
                    ELSE { ParenExpr(e) : e \in bySize[n - 1] }
                         \cup UNION { { BinaryExpr(op, l, r) :
                                          op \in ops, l \in bySize[i], r \in bySize[n - 1 - i] } :
                                      i \in 1..(n - 2) }
         IN  ExprsBySize(Append(bySize, new), leaves, ops, max)

ExprsUpTo(leaves, ops, max) ==
    LET bySize == ExprsBySize(<<>>, leaves, ops, max)
    IN  UNION { bySize[k] : k \in 1..max }

\* a = 1 AND (b != "x" OR c > 2)
ExampleExpr ==
    BinaryExpr("AND",
        BinaryExpr("EQ", LeafExpr("VarRef", "a"), LeafExpr("IntegerLiteral", "1")),
        ParenExpr(
            BinaryExpr("OR",
                BinaryExpr("NEQ", LeafExpr("VarRef", "b"), LeafExpr("StringLiteral", "x")),
                BinaryExpr("GT", LeafExpr("VarRef", "c"), LeafExpr("IntegerLiteral", "2")))))

ExprInputs ==
    ExprsUpTo(CoreLeaves, CoreOps, MaxExprSize)
        \cup ExprsUpTo(AllLeaves, AllOps, MaxFullSize)
        \cup { ExampleExpr }

\* The visitor an expression is walked with: a new one, or one that holds
\* the node of an operand walked before.
VisitorInputs ==
    { NewVisitor, Push(NewVisitor, Node("NodeTypeTagRef", "TagRefValue", "z", <<>>)) }

InitCompile ==
    /\ pc = "walk"
    /\ expr \in ExprInputs
    /\ v0 \in VisitorInputs
    /\ v = v0
    /\ keys = <<>> /\ merged = NoValue
    /\ call = NoValue /\ env = NoValue /\ ret = NoValue /\ trace = <<>>
    /\ NoQuery

\* influxql.Walk(&v, expr)
WalkExpr ==
    /\ pc = "walk"
    /\ v' = Walk(v, expr)
    /\ pc' = "walked"
    /\ UNCHANGED <<expr, v0, mergeVars, storeVars, queryVars>>

\* The expressions a visitor that was used is given next: each kind of node
\* Visit has a branch for.
SecondExprs ==
    { LeafExpr("StringLiteral", "x"), LeafExpr("VarRef", "a"), LeafExpr("Call", "now"),
      ParenExpr(LeafExpr("IntegerLiteral", "1")),
      BinaryExpr("EQ", LeafExpr("VarRef", "a"), LeafExpr("IntegerLiteral", "1")) }

\* influxql.Walk(&v, e) on the visitor of the walk before; v0 keeps the
\* visitor as it was before this walk.
WalkAgain ==
    /\ pc = "walked"
    /\ \E e \in SecondExprs :
          /\ expr' = e
          /\ v0' = v
          /\ v' = Walk(v, e)
    /\ pc' = "rewalked"
    /\ UNCHANGED <<mergeVars, storeVars, queryVars>>

NextCompile == WalkExpr \/ WalkAgain

SpecCompile == InitCompile /\ [][NextCompile]_vars

(***************************************************************************)
(* The compiler: properties                                                *)
(***************************************************************************)

ComparisonOps == { "EQ", "NEQ", "LT", "LTE", "GT", "GTE" }
LogicalOps == { "AND", "OR" }
LiteralTypes == { "StringLiteral", "NumberLiteral", "IntegerLiteral", "UnsignedLiteral" }

\* The expression is built only from the supported shapes.
RECURSIVE Supported(_)
Supported(e) ==
    CASE e.type = "BinaryExpr" ->
            /\ e.op \in ComparisonOps \cup LogicalOps
            /\ Supported(e.kids[1])
            /\ Supported(e.kids[2])
      [] e.type = "ParenExpr" -> Supported(e.kids[1])
      [] OTHER -> e.type \in LiteralTypes \cup { "VarRef" }

\* C5: walking a supported expression ends with no error and the stack one
\* node deeper than before, the nodes below unchanged; with a new visitor,
\* with exactly one node.
C5_OneNodePushed ==
    pc = "walked" /\ Supported(expr) =>
        /\ ~v.panic
        /\ v.err = NoError
        /\ Len(v.nodes) = Len(v0.nodes) + 1
        /\ SubSeq(v.nodes, 1, Len(v0.nodes)) = v0.nodes

C5_Witness ==
    /\ pc = "walked"
    /\ expr = ExampleExpr
    /\ v0 = NewVisitor
    /\ Len(v.nodes) = 1
    /\ v.err = NoError

\* The wire comparison kind of a comparison operator.
ComparisonKind(op) ==
    [EQ |-> "ComparisonEqual", NEQ |-> "ComparisonNotEqual", LT |-> "ComparisonLess",
     LTE |-> "ComparisonLessEqual", GT |-> "ComparisonGreater",
     GTE |-> "ComparisonGreaterEqual"][op]

\* The oneof field of the node of a literal or a reference.
LeafValueField(type) ==
    [StringLiteral |-> "StringValue", NumberLiteral |-> "FloatValue",
     IntegerLiteral |-> "IntegerValue", UnsignedLiteral |-> "UnsignedValue",
     VarRef |-> "TagRefValue"][type]

\* The node that mirrors a supported expression.
RECURSIVE Mirror(_)
Mirror(e) ==
    CASE e.type = "BinaryExpr" /\ e.op \in ComparisonOps ->
            [NodeType |-> "NodeTypeComparisonExpression",
             Value |-> [oneof |-> "Comparison", val |-> ComparisonKind(e.op)],
             Children |-> <<Mirror(e.kids[1]), Mirror(e.kids[2])>>]
      [] e.type = "BinaryExpr" /\ e.op \in LogicalOps ->
            [NodeType |-> "NodeTypeLogicalExpression",
             Value |-> [oneof |-> "Logical",
                        val |-> IF e.op = "AND" THEN "LogicalAnd" ELSE "LogicalOr"],
             Children |-> <<Mirror(e.kids[1]), Mirror(e.kids[2])>>]
      [] e.type = "ParenExpr" ->
            [NodeType |-> "NodeTypeParenExpression",
             Value |-> [oneof |-> "nil", val |-> ""],
             Children |-> <<Mirror(e.kids[1])>>]
      [] OTHER ->
            [NodeType |-> IF e.type = "VarRef" THEN "NodeTypeTagRef" ELSE "NodeTypeLiteral",
             Value |-> [oneof |-> LeafValueField(e.type), val |-> e.val],
             Children |-> <<>>]

\* Comparison and logical nodes have two children, parenthesization nodes
\* one, literal and reference nodes none, at every depth.
RECURSIVE WellFormed(_)
WellFormed(node) ==
    /\ Len(node.Children) =
          (CASE node.NodeType \in { "NodeTypeComparisonExpression",
                                    "NodeTypeLogicalExpression" } -> 2
             [] node.NodeType = "NodeTypeParenExpression" -> 1
             [] OTHER -> 0)
    /\ \A k \in 1..Len(node.Children) : WellFormed(node.Children[k])

\* C6: the node compiled from a supported expression mirrors it: comparison
\* and logical nodes with children [left, right], parenthesization nodes
\* with the inner node, literals and references with their value and no
\* child. The example compiles to an AND whose right child is a
\* parenthesization node around an OR.
C6_NodeMirrorsExpr ==
    pc = "walked" /\ Supported(expr) =>
        /\ v.nodes = Append(v0.nodes, Mirror(expr))
        /\ WellFormed(v.nodes[Len(v.nodes)])
        /\ expr = ExampleExpr =>
              LET root == v.nodes[Len(v.nodes)]
              IN  /\ root.NodeType = "NodeTypeLogicalExpression"
                  /\ root.Value.val = "LogicalAnd"
                  /\ root.Children[2].NodeType = "NodeTypeParenExpression"
                  /\ root.Children[2].Children[1].NodeType = "NodeTypeLogicalExpression"
                  /\ root.Children[2].Children[1].Value.val = "LogicalOr"

C6_Witness ==
    /\ pc = "walked"
    /\ expr = ExampleExpr
    /\ v.nodes[Len(v.nodes)].NodeType = "NodeTypeLogicalExpression"
    /\ v.nodes[Len(v.nodes)].Children[1].Children[1].Value.val = "a"
    /\ v.nodes[Len(v.nodes)].Children[1].Children[2].Value.val = "1"

\* The first construct, in the order of the walk (left operand, right
\* operand, then the operator), that the compiler does not support; Nil when
\* there is none.
RECURSIVE FirstOffender(_)
FirstOffender(e) ==
    CASE e.type = "BinaryExpr" ->
            LET l == FirstOffender(e.kids[1])
                r == FirstOffender(e.kids[2])
            IN  IF l /= Nil THEN l
                ELSE IF r /= Nil THEN r
                ELSE IF e.op \notin ComparisonOps \cup LogicalOps THEN e
                ELSE Nil
      [] e.type = "ParenExpr" -> FirstOffender(e.kids[1])
      [] OTHER -> IF e.type \in LiteralTypes \cup { "VarRef" } THEN Nil ELSE e

\* C7: compiling an expression that holds, at any depth, an unsupported
\* operator or an unsupported shape ends with an error; when the first such
\* construct is an operator, the error text holds the operator's text.
C7_UnsupportedFails ==
    pc = "walked" /\ ~Supported(expr) =>
        /\ ~v.panic
        /\ v.err /= NoError
        /\ FirstOffender(expr).type = "BinaryExpr" =>
              \E k \in 1..Len(v.err) : v.err[k] = TokenString(FirstOffender(expr).op)

C7_Witness ==
    /\ pc = "walked"
    /\ expr = BinaryExpr("AND",
                  BinaryExpr("ADD", LeafExpr("VarRef", "a"), LeafExpr("IntegerLiteral", "1")),
                  LeafExpr("Call", "now"))
    /\ v.err = <<"unsupported operator, ", "+">>

\* C13: a visit on a visitor that has recorded an error changes nothing:
\* it neither pushes nor pops a node, and the recorded error stays.
C13_ErrorShortCircuit ==
    pc = "rewalked" /\ v0.err /= NoError => v = v0

\* C14: walking an expression with a new visitor never panics in pop or
\* pop2: pop finds a node on the stack and pop2 two, also when the walk
\* ends with an error.
C14_NoStackUnderflow ==
    pc = "walked" /\ v0 = NewVisitor => ~v.panic

C14_Witness ==
    /\ pc = "walked"
    /\ v0 = NewVisitor
    /\ expr = BinaryExpr("EQ", LeafExpr("VarRef", "a"), LeafExpr("Call", "now"))
    /\ v.err = <<"unsupported expression">>
    /\ Len(v.nodes) = 1
    /\ ~v.panic

\* C15: the cursor of a result set Read returns is the base cursor, wrapped
\* in a group stage exactly when the request has a grouping key, wrapped
\* outermost in a limit stage exactly when SeriesLimit > 0 or
\* SeriesOffset > 0, with the limit and the offset of the request; the
\* stages are built in this order and there is no other stage.
C15_CursorStages ==
    Returned("Read") /\ ret.rs /= Nil =>
        LET req == call.req
            grouped == Len(req.Grouping) > 0
            limited == req.SeriesLimit > 0 \/ req.SeriesOffset > 0
            cur == ret.rs.cur
            inner == IF cur.stage = "limit" THEN cur.cur ELSE cur
            base == IF inner.stage = "group" THEN inner.cur ELSE inner
            stages == SelectSeq(trace, LAMBDA c :
                          c.fn \in { "newIndexSeriesCursor", "newGroupSeriesCursor",
                                     "newLimitSeriesCursor" })
        IN  /\ (cur.stage = "limit") <=> limited
            /\ cur.stage = "limit" =>
                  cur.n = req.SeriesLimit /\ cur.o = req.SeriesOffset
            /\ (inner.stage = "group") <=> grouped
            /\ inner.stage = "group" => inner.keys = req.Grouping
            /\ base.stage = "index"
            /\ stages = <<StageCall("newIndexSeriesCursor")>>
                           \o (IF grouped THEN <<StageCall("newGroupSeriesCursor")>> ELSE <<>>)
                           \o (IF limited THEN <<StageCall("newLimitSeriesCursor")>> ELSE <<>>)

C15_Witness ==
    /\ Returned("Read")
    /\ ret.rs /= Nil
    /\ call.req.Grouping = << <<100>> >>
    /\ call.req.SeriesLimit = 0
    /\ call.req.SeriesOffset = 1
    /\ ret.rs.cur.stage = "limit"
    /\ ret.rs.cur.n = 0
    /\ ret.rs.cur.cur.stage = "group"
    /\ ret.rs.cur.cur.cur.stage = "index"

(***************************************************************************)
(* Command.query: the receive loop of the "store tagkeys" command          *)
(***************************************************************************)

EOF == <<"EOF">>
ReadTagKeysFailed == <<"read tag keys failed">>
RecvFailed == <<"recv failed">>

MaxBatches == 2
MaxBatchLen == 2

BatchKeys == { <<97>>, <<98>> }

\* The Keys of a ReadTagKeysResponse.
Batches == UNION { [1..n -> BatchKeys] : n \in 0..MaxBatchLen }

\* What the server does: the answer of c.ReadTagKeys, the batches the
\* stream sends and how it ends, with io.EOF or with another error.
StreamInputs ==
    [open : { NoError, ReadTagKeysFailed },
     msgs : UNION { [1..n -> Batches] : n \in 0..MaxBatches },
     end : { EOF, RecvFailed }]

\* stream.RecvMsg(&res) after n batches were received.
RecvMsg(s, n) ==
    IF n < Len(s.msgs) THEN [res |-> s.msgs[n + 1], err |-> NoError]
    ELSE [res |-> <<>>, err |-> s.end]

\* The loop body that returns io.EOF like any other error.
LoopBodyNoEOFCheck(silent, cnt, w, r) ==
    IF r.err /= NoError
    THEN [exit |-> "return", err |-> r.err, count |-> cnt, wr |-> w]
    ELSE [exit |-> "none", err |-> NoError, count |-> cnt + Len(r.res),
          wr |-> IF silent THEN w ELSE w \o r.res]

\* The body of the for loop, r being what RecvMsg answered: how the loop is
\* left (break, return, or not at all), the error returned, count, and the
\* keys written to wr (each between its colour codes).
LoopBody(silent, cnt, w, r) ==
    IF r.err /= NoError
    THEN IF r.err = EOF
         THEN [exit |-> "break", err |-> NoError, count |-> cnt, wr |-> w]
         ELSE [exit |-> "return", err |-> r.err, count |-> cnt, wr |-> w]
    ELSE [exit |-> "none", err |-> NoError, count |-> cnt + Len(r.res),
          wr |-> IF silent THEN w ELSE w \o r.res]

InitQuery ==
    /\ pc = "query"
    /\ cmd \in [silent : BOOLEAN]
    /\ stream \in StreamInputs
    /\ recvd = 0 /\ count = 0
    /\ wr = NoValue /\ out = <<>> /\ qerr = NoError
    /\ keys = <<>> /\ merged = NoValue
    /\ call = NoValue /\ env = NoValue /\ ret = NoValue /\ trace = <<>>
    /\ expr = NoValue /\ v0 = NoValue /\ v = NoValue

\* query up to the loop: c.ReadTagKeys, whose error is printed and returned;
\* else the writer, the deferred print of the time, and count.
OpenStream ==
    /\ pc = "query"
    /\ IF stream.open /= NoError
       THEN /\ out' = Append(out, [line |-> "error", err |-> stream.open])
            /\ qerr' = stream.open
            /\ pc' = "returned"
            /\ UNCHANGED <<wr, count>>
       ELSE /\ wr' = [keys |-> <<>>, flushed |-> FALSE]
            /\ count' = 0
            /\ pc' = "recv"
            /\ UNCHANGED <<out, qerr>>
    /\ UNCHANGED <<cmd, stream, recvd, mergeVars, storeVars, visitVars>>

\* One turn of the loop and, when it leaves the loop, the rest of query:
\* after break the flush and the print of count; the deferred print last.
Receive ==
    /\ pc = "recv"
    /\ LET r == RecvMsg(stream, recvd)
           t == LoopBody(cmd.silent, count, wr.keys, r)
       IN  /\ recvd' = IF r.err = NoError THEN recvd + 1 ELSE recvd
           /\ count' = t.count
           /\ CASE t.exit = "none" ->
                    /\ wr' = [wr EXCEPT !.keys = t.wr]
                    /\ pc' = "recv"
                    /\ UNCHANGED <<out, qerr>>
                [] t.exit = "break" ->
                    /\ wr' = [keys |-> t.wr, flushed |-> TRUE]
                    /\ out' = out \o << [line |-> ""],
                                        [line |-> "count", count |-> t.count],
                                        [line |-> "time"] >>
                    /\ qerr' = NoError
                    /\ pc' = "returned"
                [] OTHER ->
                    /\ wr' = [wr EXCEPT !.keys = t.wr]
                    /\ out' = Append(out, [line |-> "time"])
                    /\ qerr' = t.err
                    /\ pc' = "returned"
    /\ UNCHANGED <<cmd, stream, mergeVars, storeVars, visitVars>>

NextQuery == OpenStream \/ Receive

\* query runs in one goroutine and RecvMsg returns once the stream has a
\* batch or its end: a step that can be taken is taken.
SpecQuery == InitQuery /\ [][NextQuery]_vars /\ WF_vars(NextQuery)

\* The number of keys in the first n batches.
RECURSIVE SumLen(_, _)
SumLen(msgs, n) == IF n = 0 THEN 0 ELSE SumLen(msgs, n - 1) + Len(msgs[n])

\* The keys of the first n batches, in order.
RECURSIVE Flatten(_, _)
Flatten(msgs, n) == IF n = 0 THEN <<>> ELSE Flatten(msgs, n - 1) \o msgs[n]

\* C16: the receive loop takes the batches in order, count being the number
\* of keys received so far (and, unless silent, wr holding them in order);
\* at io.EOF it leaves the loop and query returns nil with count the number
\* of keys of all batches; at another receive error query returns that
\* error at once; and, the stream ending or failing, query returns.
C16_ReceiveLoop ==
    /\ [](pc \in { "recv", "returned" } /\ stream.open = NoError =>
            /\ count = SumLen(stream.msgs, recvd)
            /\ ~cmd.silent => wr.keys = Flatten(stream.msgs, recvd))
    /\ [](pc = "returned" /\ stream.open = NoError =>
            /\ recvd = Len(stream.msgs)
            /\ IF stream.end = EOF
               THEN qerr = NoError /\ count = SumLen(stream.msgs, Len(stream.msgs))
               ELSE qerr = stream.end)
    /\ <>(pc = "returned")

C16_Witness ==
    /\ pc = "returned"
    /\ stream.open = NoError
    /\ stream.msgs = << << <<97>> >>, << <<97>>, <<98>> >> >>
    /\ stream.end = EOF
    /\ ~cmd.silent
    /\ recvd = 2
    /\ count = 3
    /\ wr.keys = << <<97>>, <<97>>, <<98>> >>
    /\ qerr = NoError

====
